---- MODULE Spec2Model ----
(***************************************************************************)
(* Model of recipe/upload_or_check_non_existence.py: the artifact name     *)
(* parser (split_pkg), the scoped credential file (get_temp_token), the    *)
(* remote existence lookup, the uploader, the batch orchestrator           *)
(* (upload_or_check) and the retry wrapper (retry_upload_or_check).        *)
(*                                                                         *)
(* Python strings are sequences of one-character strings, so that          *)
(* endswith / startswith / split / rsplit are computed, not assumed.       *)
(* An optional value (None or a string) is a record [set, val].            *)
(***************************************************************************)
EXTENDS Integers, Sequences, FiniteSets, TLC

VARIABLES
    envToken,      \* os.environ.get('BINSTAR_TOKEN'): optional string
    noarchList,    \* os.listdir(croot/noarch)
    subdirList,    \* os.listdir(croot/subdir)
    remote,        \* distributions the remote index holds (owner fixed)
    pc,            \* position of the run
    i,             \* loop variable of retry_upload_or_check
    calls,         \* calls of upload_or_check made so far
    failed,        \* calls of upload_or_check that raised
    sleeps,        \* arguments of time.sleep, in order
    res,           \* value returned by retry_upload_or_check
    exc,           \* exception in flight out of upload_or_check
    token,         \* local `token` of upload_or_check
    cliToken,      \* token the remote client was built with
    built,         \* local built_distributions
    existing,      \* local existing_distributions
    new,           \* local new_distributions
    idx,           \* position in the comprehension / loop being run
    out,           \* lines printed by the current call of upload_or_check
    tmpdirs,       \* temporary directories (each holding binstar.token) on disk
    token_fn,      \* directory of the credential file of the open scope
    mkdtemps,      \* calls of tempfile.mkdtemp in the run
    invoked,       \* paths the upload command was invoked on, this call
    uploadLog,     \* paths whose upload command succeeded, whole run
    pkgIn,         \* argument of split_pkg (parser specification)
    pkgOut         \* result of split_pkg (parser specification)

vars == <<envToken, noarchList, subdirList, remote, pc, i, calls, failed,
          sleeps, res, exc, token, cliToken, built, existing, new, idx, out,
          tmpdirs, token_fn, mkdtemps, invoked, uploadLog, pkgIn, pkgOut>>

runVars == <<envToken, noarchList, subdirList, remote, pc, i, calls, failed,
             sleeps, res, exc, token, cliToken, built, existing, new, idx,
             out, tmpdirs, token_fn, mkdtemps, invoked, uploadLog>>

(***************************************************************************)
(* Bounds of the model.                                                    *)
(***************************************************************************)
\* files listed per output directory
MaxFiles == 1
\* length of the name component drawn for split_pkg
MaxName == 2
\* length of the version and build components drawn for split_pkg
MaxPart == 1

(***************************************************************************)
(* String helpers: Python str methods on sequences of characters.          *)
(***************************************************************************)
None == [set |-> FALSE, val |-> <<>>]
Some(s) == [set |-> TRUE, val |-> s]

StartsWith(s, p) ==
    /\ Len(s) >= Len(p)
    /\ SubSeq(s, 1, Len(p)) = p

EndsWith(s, p) ==
    /\ Len(s) >= Len(p)
    /\ SubSeq(s, Len(s) - Len(p) + 1, Len(s)) = p

\* positions of character c in s
Positions(s, c) == {k \in 1..Len(s) : s[k] = c}

SetMax(S) == CHOOSE m \in S : \A n \in S : n <= m
SetMin(S) == CHOOSE m \in S : \A n \in S : m <= n

\* s.split(c): the pieces between the occurrences of c
RECURSIVE StrSplit(_, _)
StrSplit(s, c) ==
    IF Positions(s, c) = {} THEN <<s>>
    ELSE LET k == SetMin(Positions(s, c))
         IN <<SubSeq(s, 1, k - 1)>> \o StrSplit(SubSeq(s, k + 1, Len(s)), c)

\* s.rsplit(c, 1): split once at the rightmost occurrence of c
StrRSplit1(s, c) ==
    IF Positions(s, c) = {} THEN <<s>>
    ELSE LET k == SetMax(Positions(s, c))
         IN <<SubSeq(s, 1, k - 1), SubSeq(s, k + 1, Len(s))>>

TarBz2 == <<".", "t", "a", "r", ".", "b", "z", "2">>

(***************************************************************************)
(* split_pkg.  The result is a record: exc names the exception raised      *)
(* ("none" when the tuple is returned).                                    *)
(***************************************************************************)
SplitFail(e) == [exc |-> e, plat |-> <<>>, name |-> <<>>, ver |-> <<>>, build |-> <<>>]

\* name_ver.rsplit('-', 1) and the return
SplitNameVerLeft(plat, name_ver, build) ==
    LET q == StrSplit(name_ver, "-")
    IN IF Len(q) < 2 THEN SplitFail("ValueError")
       ELSE [exc |-> "none", plat |-> plat, name |-> q[1],
             ver |-> SubSeq(name_ver, Len(q[1]) + 2, Len(name_ver)),
             build |-> build]

SplitNameVer(plat, name_ver, build) ==
    LET q == StrRSplit1(name_ver, "-")
    IN IF Len(q) # 2 THEN SplitFail("ValueError")
       ELSE [exc |-> "none", plat |-> plat, name |-> q[1], ver |-> q[2],
             build |-> build]

split_pkg(pkg) ==
    IF ~EndsWith(pkg, TarBz2) THEN SplitFail("RuntimeError")
    ELSE LET stem == SubSeq(pkg, 1, Len(pkg) - 8)
             parts == StrSplit(stem, "/")
         IN IF Len(parts) # 2 THEN SplitFail("ValueError")
            ELSE LET p == StrRSplit1(parts[2], "-")
                 IN IF Len(p) # 2 THEN SplitFail("ValueError")
                    ELSE SplitNameVer(parts[1], p[1], p[2])

(***************************************************************************)
(* Parser specification: split_pkg applied to drawn paths.                 *)
(***************************************************************************)
StrUpTo(A, n) == UNION {[1..k -> A] : k \in 0..n}

PartAlphabet == {"a", "-", "/"}
Extensions == {TarBz2, <<".", "t", "a", "r">>, <<>>}
Platforms == {<<"l", "-", "6", "4">>, <<"n">>, <<>>, <<"n", "/">>}

MkPath(plat, name, ver, build, ext) ==
    plat \o <<"/">> \o name \o <<"-">> \o ver \o <<"-">> \o build \o ext

NoResult == [exc |-> "unset", plat |-> <<>>, name |-> <<>>, ver |-> <<>>, build |-> <<>>]
NoInput == [plat |-> <<>>, name |-> <<>>, ver |-> <<>>, build |-> <<>>,
            ext |-> <<>>, path |-> <<>>]


(***************************************************************************)
(* Build output on disk and the environment.                               *)
(***************************************************************************)
Noarch == <<"n", "o", "a", "r", "c", "h">>
\* conda_build.config.subdir, a platform name that itself holds a hyphen
Subdir == <<"l", "-", "6", "4">>

FileA == <<"a", "-", "1", "-", "0">> \o TarBz2
FileBC == <<"b", "-", "c", "-", "2", "-", "0">> \o TarBz2
FileOneHyphen == <<"x", "-", "1">> \o TarBz2
FileNoHyphen == <<"y">> \o TarBz2
FileTxt == <<"r", ".", "t", "x", "t">>

NoarchNames == {FileA, FileOneHyphen, FileTxt}
SubdirNames == {FileBC, FileNoHyphen}

\* a directory listing: distinct names, in the order listdir gives them
Listings(S) == {l \in StrUpTo(S, MaxFiles) :
                   \A j, k \in 1..Len(l) : l[j] = l[k] => j = k}

Placeholder == <<"$", "(">>
Tokens == {None, Some(<<>>), Some(Placeholder), Some(Placeholder \o <<"s", ")">>),
           Some(<<"t", "k">>), Some(<<"$", "k">>)}

\* os.path.join(d, p) for a relative name p
ospath_join(d, p) == d \o <<"/">> \o p

RECURSIVE RStripSlash(_)
RStripSlash(s) ==
    IF Len(s) > 0 /\ s[Len(s)] = "/" THEN RStripSlash(SubSeq(s, 1, Len(s) - 1))
    ELSE s

\* os.path.split(p): <<head, tail>>
ospath_split(p) ==
    IF Positions(p, "/") = {} THEN <<(<<>>), p>>
    ELSE LET k == SetMax(Positions(p, "/"))
             head == SubSeq(p, 1, k)
         IN <<IF RStripSlash(head) = <<>> THEN head ELSE RStripSlash(head),
              SubSeq(p, k + 1, Len(p))>>

Range(s) == {s[k] : k \in 1..Len(s)}

TruthyNotNone(t) == t.set

\* Python truthiness of an optional string
Truthy(t) == t.set /\ Len(t.val) > 0

(***************************************************************************)
(* upload_or_check, lines 103-120: token, client, enumeration, parsing.    *)
(***************************************************************************)
IsPlaceholderExact(t) == Truthy(t) /\ t.val = Placeholder

IsPlaceholder(t) == Truthy(t) /\ StartsWith(t.val, Placeholder)

ResolveToken(t) == IF IsPlaceholder(t) THEN None ELSE t

Paths ==
    [k \in 1..Len(noarchList) |-> ospath_join(Noarch, noarchList[k])]
    \o [k \in 1..Len(subdirList) |-> ospath_join(Subdir, subdirList[k])]

IsArchiveAny(path) == TRUE

IsArchive(path) == EndsWith(path, TarBz2)

Considered(paths) == SelectSeq(paths, IsArchive)

BuiltOf(paths) ==
    LET c == Considered(paths)
    IN [k \in 1..Len(c) |-> [name |-> split_pkg(c[k]).name,
                             version |-> split_pkg(c[k]).ver,
                             path |-> c[k]]]

\* the exception the comprehension of lines 117-120 raises, "none" if none
ParseExc(paths) ==
    LET c == Considered(paths)
        bad == {k \in 1..Len(c) : split_pkg(c[k]).exc # "none"}
    IN IF bad = {} THEN "none" ELSE split_pkg(c[SetMin(bad)]).exc

(***************************************************************************)
(* The remote index: a set of distribution keys under the fixed owner.     *)
(***************************************************************************)
distro_name(fname) ==
    LET folder == ospath_split(fname)[1]
        basename == ospath_split(fname)[2]
        platform == ospath_split(folder)[2]
    IN platform \o <<"/">> \o basename

DistKey(name, version, fname) ==
    [name |-> name, version |-> version, dist |-> distro_name(fname)]

NeverExists(name, version, fname) == FALSE

built_distribution_already_exists(name, version, fname) ==
    DistKey(name, version, fname) \in remote

\* the key the upload command registers for a built distribution
UploadedKey(path) == DistKey(split_pkg(path).name, split_pkg(path).ver, path)

UniverseKeys == {UploadedKey(ospath_join(Noarch, FileA)),
                 UploadedKey(ospath_join(Subdir, FileBC))}

ExistsLine(p) == [kind |-> "exists", path |-> p]
ExistsLines(ps) == [k \in 1..Len(ps) |-> ExistsLine(ps[k])]
UploadedLine(p) == [kind |-> "uploaded", path |-> p]
SkipLine(p) == [kind |-> "skip", path |-> p]
SkipLines(ps) == [k \in 1..Len(ps) |-> SkipLine(ps[k])]

(***************************************************************************)
(* retry_upload_or_check, lines 146-157.                                   *)
(***************************************************************************)
\* range(1, 10)
RangeStart == 1
RangeStop == 10

\* timeout = i ** 2
Backoff(n) == n * n

(***************************************************************************)
(* Initial state.                                                          *)
(***************************************************************************)
InitLocals ==
    /\ token = None
    /\ cliToken = None
    /\ built = <<>>
    /\ existing = <<>>
    /\ new = <<>>
    /\ idx = 0
    /\ out = <<>>
    /\ token_fn = 0
    /\ invoked = <<>>

InitRun ==
    /\ i = RangeStart
    /\ calls = 0
    /\ failed = 0
    /\ sleeps = <<>>
    /\ res = "unset"
    /\ exc = "none"
    /\ tmpdirs = {}
    /\ mkdtemps = 0
    /\ uploadLog = <<>>
    /\ InitLocals

Init ==
    /\ envToken \in Tokens
    /\ noarchList \in Listings(NoarchNames)
    /\ subdirList \in Listings(SubdirNames)
    /\ remote \in SUBSET UniverseKeys
    /\ pc = "loop"
    /\ InitRun
    /\ pkgIn = NoInput
    /\ pkgOut = NoResult


(***************************************************************************)
(* Exceptions.  An exception raised inside upload_or_check unwinds to the  *)
(* except clause of retry_upload_or_check (line 153); every exception the  *)
(* model raises is a subclass of Exception.                                *)
(***************************************************************************)
Raise(e) ==
    /\ exc' = e
    /\ failed' = failed + 1
    /\ pc' = "except"

(***************************************************************************)
(* upload_or_check, lines 103-120.  One call starts: the token is read and *)
(* resolved, the client built, the output directories listed and every     *)
(* considered path parsed (twice per path, by split_pkg).                  *)
(***************************************************************************)
StartCall ==
    /\ pc = "loop"
    /\ calls' = calls + 1
    /\ token' = ResolveToken(envToken)
    /\ cliToken' = ResolveToken(envToken)
    /\ existing' = <<>>
    /\ new' = <<>>
    /\ out' = <<>>
    /\ invoked' = <<>>
    /\ token_fn' = 0
    /\ IF ParseExc(Paths) # "none"
       THEN /\ Raise(ParseExc(Paths))
            /\ built' = <<>>
            /\ idx' = 0
       ELSE /\ built' = BuiltOf(Paths)
            /\ idx' = 1
            /\ pc' = "check1"
            /\ exc' = "none"
            /\ failed' = failed
    /\ UNCHANGED <<envToken, noarchList, subdirList, remote, i, sleeps,
                   res, tmpdirs, mkdtemps, uploadLog, pkgIn, pkgOut>>

(***************************************************************************)
(* Lines 123-124: one element of the existing_distributions comprehension. *)
(***************************************************************************)
LookupExisting ==
    /\ pc = "check1"
    /\ idx <= Len(built)
    /\ existing' = IF built_distribution_already_exists(
                          built[idx].name, built[idx].version, built[idx].path)
                   THEN Append(existing, built[idx].path)
                   ELSE existing
    /\ idx' = idx + 1
    /\ UNCHANGED <<envToken, noarchList, subdirList, remote, pc, i, calls,
                   failed, sleeps, res, exc, token, cliToken, built, new, out,
                   tmpdirs, token_fn, mkdtemps, invoked, uploadLog, pkgIn,
                   pkgOut>>

\* Lines 51-54: a lookup failure other than NotFound propagates.
LookupExistingFails ==
    /\ pc = "check1"
    /\ idx <= Len(built)
    /\ Raise("BinstarError")
    /\ UNCHANGED <<envToken, noarchList, subdirList, remote, i, calls,
                   sleeps, res, token, cliToken, built, existing, new, idx, out,
                   tmpdirs, token_fn, mkdtemps, invoked, uploadLog, pkgIn,
                   pkgOut>>

\* Lines 125-126: the "already exists" lines.
PrintExisting ==
    /\ pc = "check1"
    /\ idx > Len(built)
    /\ out' = out \o ExistsLines(existing)
    /\ pc' = "check2"
    /\ idx' = 1
    /\ UNCHANGED <<envToken, noarchList, subdirList, remote, i, calls, failed,
                   sleeps, res, exc, token, cliToken, built, existing, new,
                   tmpdirs, token_fn, mkdtemps, invoked, uploadLog, pkgIn,
                   pkgOut>>

(***************************************************************************)
(* Lines 129-130: one element of the new_distributions comprehension,      *)
(* which queries the remote a second time.                                 *)
(***************************************************************************)
LookupNew ==
    /\ pc = "check2"
    /\ idx <= Len(built)
    /\ new' = IF ~built_distribution_already_exists(
                      built[idx].name, built[idx].version, built[idx].path)
              THEN Append(new, built[idx].path)
              ELSE new
    /\ idx' = idx + 1
    /\ UNCHANGED <<envToken, noarchList, subdirList, remote, pc, i, calls,
                   failed, sleeps, res, exc, token, cliToken, built, existing,
                   out, tmpdirs, token_fn, mkdtemps, invoked, uploadLog, pkgIn,
                   pkgOut>>

LookupNewFails ==
    /\ pc = "check2"
    /\ idx <= Len(built)
    /\ Raise("BinstarError")
    /\ UNCHANGED <<envToken, noarchList, subdirList, remote, i, calls,
                   sleeps, res, token, cliToken, built, existing, new, idx, out,
                   tmpdirs, token_fn, mkdtemps, invoked, uploadLog, pkgIn,
                   pkgOut>>

(***************************************************************************)
(* Lines 133-134 and get_temp_token lines 33-37: the token is truthy, the  *)
(* credential scope is entered: a fresh directory holds binstar.token.     *)
(***************************************************************************)
FreshDir == SetMin({d \in 1..(Cardinality(tmpdirs) + 1) : d \notin tmpdirs})

EnterTokenScope ==
    /\ pc = "check2"
    /\ idx > Len(built)
    /\ Truthy(token)
    /\ tmpdirs' = tmpdirs \cup {FreshDir}
    /\ token_fn' = FreshDir
    /\ mkdtemps' = mkdtemps + 1
    /\ pc' = "upload"
    /\ idx' = 1
    /\ UNCHANGED <<envToken, noarchList, subdirList, remote, i, calls, failed,
                   sleeps, res, exc, token, cliToken, built, existing, new, out,
                   invoked, uploadLog, pkgIn, pkgOut>>

(***************************************************************************)
(* Lines 139-143: no token; one skip line per new distribution, False.     *)
(***************************************************************************)
SkipUploads ==
    /\ pc = "check2"
    /\ idx > Len(built)
    /\ ~Truthy(token)
    /\ out' = out \o SkipLines(new)
    /\ res' = "False"
    /\ pc' = "done"
    /\ UNCHANGED <<envToken, noarchList, subdirList, remote, i, calls, failed,
                   sleeps, exc, token, cliToken, built, existing, new, idx,
                   tmpdirs, token_fn, mkdtemps, invoked, uploadLog, pkgIn,
                   pkgOut>>

(***************************************************************************)
(* Lines 135-137 and upload, lines 72-77: the upload command runs on one   *)
(* new distribution and exits zero; the remote holds it from then on.      *)
(***************************************************************************)
UploadOne ==
    /\ pc = "upload"
    /\ idx <= Len(new)
    /\ invoked' = Append(invoked, new[idx])
    /\ remote' = remote \cup {UploadedKey(new[idx])}
    /\ uploadLog' = Append(uploadLog, new[idx])
    /\ out' = Append(out, UploadedLine(new[idx]))
    /\ idx' = idx + 1
    /\ UNCHANGED <<envToken, noarchList, subdirList, pc, i, calls, failed,
                   sleeps, res, exc, token, cliToken, built, existing, new,
                   tmpdirs, token_fn, mkdtemps, pkgIn, pkgOut>>

(***************************************************************************)
(* The upload command exits non-zero: check_call raises inside the with    *)
(* block.  get_temp_token has no try/finally around its yield (lines       *)
(* 37-38), so the exception thrown into the generator leaves it before     *)
(* shutil.rmtree: the directory stays on disk.                             *)
(***************************************************************************)
UploadFails ==
    /\ pc = "upload"
    /\ idx <= Len(new)
    /\ invoked' = Append(invoked, new[idx])
    /\ Raise("CalledProcessError")
    /\ UNCHANGED <<envToken, noarchList, subdirList, remote, i, calls,
                   sleeps, res, token, cliToken, built, existing, new, idx, out,
                   tmpdirs, token_fn, mkdtemps, uploadLog, pkgIn, pkgOut>>

ReturnWithoutLeaving ==
    /\ pc = "upload"
    /\ idx > Len(new)
    /\ tmpdirs' = tmpdirs \ {token_fn}
    /\ res' = "True"
    /\ IF i + 1 < RangeStop
       THEN /\ i' = i + 1
            /\ pc' = "loop"
       ELSE /\ i' = i
            /\ pc' = "timeout"
    /\ UNCHANGED <<envToken, noarchList, subdirList, remote, calls, failed,
                   sleeps, exc, token, cliToken, built, existing, new, idx, out,
                   token_fn, mkdtemps, invoked, uploadLog, pkgIn, pkgOut>>

(***************************************************************************)
(* Lines 38 and 138: the with block ends normally, the generator resumes,  *)
(* shutil.rmtree removes the directory, upload_or_check returns True.      *)
(***************************************************************************)
ExitTokenScope ==
    /\ pc = "upload"
    /\ idx > Len(new)
    /\ tmpdirs' = tmpdirs \ {token_fn}
    /\ res' = "True"
    /\ pc' = "done"
    /\ UNCHANGED <<envToken, noarchList, subdirList, remote, i, calls, failed,
                   sleeps, exc, token, cliToken, built, existing, new, idx, out,
                   token_fn, mkdtemps, invoked, uploadLog, pkgIn, pkgOut>>

(***************************************************************************)
(* Lines 153-157: the except clause.  It prints, sleeps i ** 2 seconds and *)
(* the for loop takes the next value of range(1, 10); when the range is    *)
(* exhausted the loop ends and TimeoutError is raised.                     *)
(***************************************************************************)
HandleNoSleepOnLast ==
    /\ pc = "except"
    /\ sleeps' = IF i + 1 < RangeStop THEN Append(sleeps, Backoff(i)) ELSE sleeps
    /\ exc' = "none"
    /\ IF i + 1 < RangeStop
       THEN /\ i' = i + 1
            /\ pc' = "loop"
       ELSE /\ i' = i
            /\ pc' = "timeout"
    /\ UNCHANGED <<envToken, noarchList, subdirList, remote, calls, failed, res, token,
                   cliToken, built, existing, new, idx, out, tmpdirs, token_fn,
                   mkdtemps, invoked, uploadLog, pkgIn, pkgOut>>

HandleException ==
    /\ pc = "except"
    /\ sleeps' = Append(sleeps, Backoff(i))
    /\ exc' = "none"
    /\ IF i + 1 < RangeStop
       THEN /\ i' = i + 1
            /\ pc' = "loop"
       ELSE /\ i' = i
            /\ pc' = "timeout"
    /\ UNCHANGED <<envToken, noarchList, subdirList, remote, calls, failed, res, token,
                   cliToken, built, existing, new, idx, out, tmpdirs, token_fn,
                   mkdtemps, invoked, uploadLog, pkgIn, pkgOut>>

(***************************************************************************)
(* The remote index is shared: while a call is checking or uploading,      *)
(* another client may publish a distribution, or the owner may remove one. *)
(* A distribution this run uploaded stays (the index reports it from the   *)
(* moment its upload command succeeds).                                    *)
(***************************************************************************)
Busy == pc \in {"check1", "check2", "upload"}

UploadedKeys == {UploadedKey(uploadLog[k]) : k \in 1..Len(uploadLog)}

RemotePublish ==
    /\ Busy
    /\ \E k \in UniverseKeys \ remote : remote' = remote \cup {k}
    /\ UNCHANGED <<envToken, noarchList, subdirList, pc, i, calls, failed,
                   sleeps, res, exc, token, cliToken, built, existing, new, idx,
                   out, tmpdirs, token_fn, mkdtemps, invoked, uploadLog, pkgIn,
                   pkgOut>>

RemoteRemove ==
    /\ Busy
    /\ \E k \in remote \ UploadedKeys : remote' = remote \ {k}
    /\ UNCHANGED <<envToken, noarchList, subdirList, pc, i, calls, failed,
                   sleeps, res, exc, token, cliToken, built, existing, new, idx,
                   out, tmpdirs, token_fn, mkdtemps, invoked, uploadLog, pkgIn,
                   pkgOut>>

Next ==
    \/ StartCall
    \/ LookupExisting
    \/ LookupExistingFails
    \/ PrintExisting
    \/ LookupNew
    \/ LookupNewFails
    \/ EnterTokenScope
    \/ SkipUploads
    \/ UploadOne
    \/ UploadFails
    \/ ExitTokenScope
    \/ HandleException
    \/ RemotePublish
    \/ RemoteRemove

Spec == Init /\ [][Next]_vars


(***************************************************************************)
(* Parser specification: split_pkg is applied to one drawn path.           *)
(***************************************************************************)
SplitInput(p, n, v, b, e) ==
    [plat |-> p, name |-> n, ver |-> v, build |-> b, ext |-> e,
     path |-> MkPath(p, n, v, b, e)]

InitSplit ==
    /\ \E p \in Platforms, n \in StrUpTo(PartAlphabet, MaxName),
          v \in StrUpTo(PartAlphabet, MaxPart),
          b \in StrUpTo(PartAlphabet, MaxPart), e \in Extensions :
            pkgIn = SplitInput(p, n, v, b, e)
    /\ pkgOut = NoResult
    /\ envToken = None
    /\ noarchList = <<>>
    /\ subdirList = <<>>
    /\ remote = {}
    /\ pc = "parser"
    /\ InitRun

ApplySplit ==
    /\ pc = "parser"
    /\ pkgOut = NoResult
    /\ pkgOut' = split_pkg(pkgIn.path)
    /\ UNCHANGED <<runVars, pkgIn>>

NextSplit == ApplySplit

SplitSpec == InitSplit /\ [][NextSplit]_vars

(***************************************************************************)
(* Vocabulary of the properties.                                           *)
(***************************************************************************)
HasChar(s, c) == Positions(s, c) # {}
NoDuplicates(s) == \A j, k \in 1..Len(s) : s[j] = s[k] => j = k
LinesOfKind(kind) == SelectSeq(out, LAMBDA l : l.kind = kind)
BuiltPaths == {built[k].path : k \in 1..Len(built)}

\* the call in progress has finished both existence comprehensions
Classified == pc \in {"upload", "done"} \/ (pc = "check2" /\ idx > Len(built))
\* the call in progress has finished the first comprehension and printed
Printed == pc \in {"check2", "upload", "done"}
\* no call of upload_or_check is in progress
BetweenCalls == pc \in {"loop", "except", "done", "timeout"}

AbsentToken == ~envToken.set \/ envToken.val = <<>>
PlaceholderToken ==
    /\ envToken.set
    /\ Len(envToken.val) >= 2
    /\ envToken.val[1] = "$"
    /\ envToken.val[2] = "("

\* what a run without a token does: nothing is uploaded, no credential file
NoUploadBehaviour ==
    /\ invoked = <<>>
    /\ uploadLog = <<>>
    /\ mkdtemps = 0
    /\ tmpdirs = {}
    /\ pc # "upload"
    /\ res # "True"
    /\ LinesOfKind("uploaded") = <<>>
    /\ pc = "done" =>
         /\ res = "False"
         /\ LinesOfKind("skip") = SkipLines(new)
         /\ Len(LinesOfKind("skip")) = Len(new)
         /\ LinesOfKind("exists") = ExistsLines(existing)

\* basenames listed that do not end in .tar.bz2
NonArchives == {f \in Range(noarchList) \cup Range(subdirList) : ~EndsWith(f, TarBz2)}
\* basenames listed that end in .tar.bz2 with fewer than two hyphens before it
BadTriplets ==
    {f \in Range(noarchList) \cup Range(subdirList) :
        /\ EndsWith(f, TarBz2)
        /\ Cardinality(Positions(SubSeq(f, 1, Len(f) - Len(TarBz2)), "-")) < 2}
Archives == {f \in Range(noarchList) \cup Range(subdirList) : EndsWith(f, TarBz2)}

(***************************************************************************)
(* C1 as stated: at most 9 calls, the sleep after the i-th failed call is  *)
(* i*i, sleeps occur only between successive failed calls (none after the  *)
(* 9th), and TimeoutError is raised after 9 failed calls.                  *)
(***************************************************************************)
C1_NoSleepAfterLastFailure ==
    /\ calls <= 9
    /\ \A k \in 1..Len(sleeps) : sleeps[k] = k * k
    /\ pc = "timeout" => failed = 9 /\ Len(sleeps) = 8

(***************************************************************************)
(* C1 amended: at most 9 calls; a sleep follows every failed call, the     *)
(* 9th included, and the sleep after the i-th failed call is i*i seconds;  *)
(* TimeoutError is raised after 9 failed calls (and their 9 sleeps), and   *)
(* only then.                                                              *)
(***************************************************************************)
C1_RetryBackoff ==
    /\ calls <= 9
    /\ failed <= calls
    /\ \A k \in 1..Len(sleeps) : sleeps[k] = k * k
    /\ Len(sleeps) = IF pc = "except" THEN failed - 1 ELSE failed
    /\ pc = "timeout" <=> (failed = 9 /\ pc # "except")
    /\ pc = "timeout" => calls = 9 /\ sleeps = <<1, 4, 9, 16, 25, 36, 49, 64, 81>>

C1_Witness == pc = "timeout" /\ Len(sleeps) = 9 /\ sleeps[9] = 81

(***************************************************************************)
(* C2 as stated: when no call of upload_or_check is in progress (between   *)
(* calls and at the end of the run) no temporary credential directory      *)
(* exists, whether the call returned or raised inside the credential scope.*)
(***************************************************************************)
C2_CredentialRemoved == BetweenCalls => tmpdirs = {}

(***************************************************************************)
(* C3 as stated: a listed file that does not end in .tar.bz2, or ends in   *)
(* it without the name-version-build triplet, makes the first call raise a *)
(* parse error that is not caught: no second call, no sleep.               *)
(***************************************************************************)
C3_ParseErrorAborts ==
    (NonArchives # {} \/ BadTriplets # {}) /\ calls >= 1 =>
        /\ calls = 1
        /\ sleeps = <<>>
        /\ exc \in {"RuntimeError", "ValueError"}

(***************************************************************************)
(* C3 amended: a listed file that does not end in .tar.bz2 is skipped      *)
(* without any error; a listed file that ends in .tar.bz2 with fewer than  *)
(* two hyphens in its basename makes every call raise ValueError before    *)
(* any lookup or upload, which the retry wrapper catches like any other    *)
(* exception: 9 calls, 9 sleeps, then TimeoutError, and never a result.    *)
(***************************************************************************)
C3_ParseErrorRetried ==
    /\ BadTriplets # {} =>
         /\ pc \in {"loop", "except", "timeout"}
         /\ pc = "except" => exc = "ValueError"
         /\ failed = calls
         /\ built = <<>> /\ out = <<>> /\ invoked = <<>> /\ uploadLog = <<>>
         /\ res = "unset"
         /\ pc = "timeout" => calls = 9 /\ Len(sleeps) = 9
    /\ BadTriplets = {} =>
         /\ exc \notin {"RuntimeError", "ValueError"}
         /\ \A p \in BuiltPaths : EndsWith(p, TarBz2)
         /\ calls >= 1 => Len(built) = Cardinality(Archives)

C3_Witness ==
    /\ BadTriplets # {}
    /\ NonArchives # {}
    /\ pc = "timeout"
    /\ Len(sleeps) = 9

(***************************************************************************)
(* C4 as stated: with a valid credential, upload is invoked on an artifact *)
(* only if a lookup reported it absent; an artifact the remote reported as *)
(* existing gets an "already exists" line and is never uploaded; every     *)
(* artifact reported as not found is uploaded when the call returns.       *)
(***************************************************************************)
C4_UploadOnlyAbsent ==
    Truthy(token) =>
        /\ Range(invoked) \subseteq Range(new)
        /\ \A p \in Range(existing) :
             /\ p \notin Range(invoked)
             /\ Printed => ExistsLine(p) \in Range(out)
        /\ pc = "done" =>
             \A p \in BuiltPaths : p \notin Range(existing) => p \in Range(invoked)

(***************************************************************************)
(* C5: with BINSTAR_TOKEN unset or empty, no call invokes the upload       *)
(* command or creates a credential file; a call that returns has printed   *)
(* exactly one skip line per new distribution and returns False.           *)
(***************************************************************************)
C5_NoTokenNoUpload ==
    AbsentToken =>
        /\ NoUploadBehaviour
        /\ calls >= 1 => ~Truthy(token) /\ ~Truthy(cliToken)

C5_Witness ==
    /\ envToken = Some(<<>>)
    /\ pc = "done"
    /\ Len(new) >= 1
    /\ Len(LinesOfKind("skip")) = Len(new)

(***************************************************************************)
(* C6: a BINSTAR_TOKEN beginning with "$(" behaves as no BINSTAR_TOKEN:    *)
(* the local token and the client's token are None, exactly as when the    *)
(* variable is unset, and the run shows the no-token behaviour: no upload, *)
(* no credential file, the same lines, the result False.                   *)
(***************************************************************************)
C6_PlaceholderIsAbsent ==
    PlaceholderToken =>
        /\ NoUploadBehaviour
        /\ ResolveToken(envToken) = ResolveToken(None)
        /\ calls >= 1 => token = None /\ cliToken = None

C6_Witness ==
    /\ PlaceholderToken
    /\ Len(envToken.val) > 2
    /\ pc = "done"
    /\ Len(new) >= 1
    /\ Len(existing) >= 1

(***************************************************************************)
(* C7 as stated: once a call has finished the existence check, every built *)
(* distribution is in exactly one of existing_distributions and            *)
(* new_distributions, whatever the remote answers, also when its answer    *)
(* for a distribution changes between the two lookups.                     *)
(***************************************************************************)
C7_Partition ==
    Classified =>
        \A p \in BuiltPaths : (p \in Range(existing)) # (p \in Range(new))

(***************************************************************************)
(* C8 as stated: for any platform, name, version and build (read as path   *)
(* components, so holding no slash), split_pkg of                          *)
(* platform/name-version-build.tar.bz2 is (platform, name, version,        *)
(* build); a path not ending in .tar.bz2 raises RuntimeError.              *)
(***************************************************************************)
NoSlashParts ==
    \A c \in {pkgIn.plat, pkgIn.name, pkgIn.ver, pkgIn.build} : ~HasChar(c, "/")

C8_SplitAnyStrings ==
    pkgOut # NoResult =>
        /\ pkgIn.ext = TarBz2 /\ NoSlashParts =>
             pkgOut = [exc |-> "none", plat |-> pkgIn.plat, name |-> pkgIn.name,
                       ver |-> pkgIn.ver, build |-> pkgIn.build]
        /\ ~EndsWith(pkgIn.path, TarBz2) => pkgOut.exc = "RuntimeError"

(***************************************************************************)
(* C8 amended: when version and build hold no hyphen and none of the four  *)
(* components holds a slash (the name may hold hyphens), split_pkg of      *)
(* platform/name-version-build.tar.bz2 is (platform, name, version,        *)
(* build); a path not ending in .tar.bz2 always raises RuntimeError.       *)
(***************************************************************************)
WellFormedParts ==
    /\ ~HasChar(pkgIn.ver, "-")
    /\ ~HasChar(pkgIn.build, "-")
    /\ NoSlashParts

C8_SplitRoundTrip ==
    pkgOut # NoResult =>
        /\ pkgIn.ext = TarBz2 /\ WellFormedParts =>
             pkgOut = [exc |-> "none", plat |-> pkgIn.plat, name |-> pkgIn.name,
                       ver |-> pkgIn.ver, build |-> pkgIn.build]
        /\ ~EndsWith(pkgIn.path, TarBz2) => pkgOut.exc = "RuntimeError"

C8_Witness ==
    /\ pkgOut.exc = "none"
    /\ WellFormedParts
    /\ pkgIn.name = <<"a", "-">>
    /\ pkgOut.name = pkgIn.name
    /\ pkgIn.plat = <<"l", "-", "6", "4">>

(***************************************************************************)
(* C9: the retry wrapper stops at the first call that returns: a result    *)
(* exists exactly when the run is done, it is the value the call returned  *)
(* (True with a token, False without), the k-th call returning means k-1   *)
(* failed calls and k-1 sleeps, TimeoutError is not raised, and nothing    *)
(* happens afterwards.                                                     *)
(***************************************************************************)
C9_Returned ==
    /\ res # "unset" <=> pc = "done"
    /\ pc = "done" =>
         /\ calls = i
         /\ failed = calls - 1
         /\ Len(sleeps) = calls - 1
         /\ res = IF Truthy(token) THEN "True" ELSE "False"

C9_StopsAtFirstSuccess == [](C9_Returned) /\ [][pc = "done" => UNCHANGED vars]_vars

C9_Witness == pc = "done" /\ calls = 3 /\ Len(sleeps) = 2 /\ res = "True"

(***************************************************************************)
(* C10: the remote reporting a distribution from the moment its upload     *)
(* succeeds, no upload command succeeds twice for one artifact in a run:   *)
(* an artifact uploaded by an earlier call is classified as existing by    *)
(* every later call and is not uploaded again.                             *)
(***************************************************************************)
UploadedEarlier == Range(uploadLog) \ Range(invoked)

C10_UploadedOnce ==
    /\ NoDuplicates(uploadLog)
    /\ \A p \in UploadedEarlier :
         /\ p \notin Range(new)
         /\ Printed /\ p \in BuiltPaths => p \in Range(existing)

C10_Witness ==
    /\ UploadedEarlier # {}
    /\ calls >= 2
    /\ pc = "done"
    /\ res = "True"
    /\ Len(uploadLog) = 2

====
